---- MODULE Spec2Model ----
(***************************************************************************)
(* Gesture pipeline of GestureController (hand landmarks -> debounced      *)
(* gestures -> mode changes, photo changes, camera commands, snow toggle)  *)
(* and the life cycle of its detection effect (detector and camera set-up, *)
(* the polling loop, unmount and cleanup).                                 *)
(*                                                                         *)
(* Units: image coordinates and distances are in 1/1000 of the normalised  *)
(* image width (0.05 is 50, 0.5 is 500); times are milliseconds.           *)
(***************************************************************************)
EXTENDS Integers, Sequences, FiniteSets, TLC

VARIABLES
  openFrames, closedFrames, thumbsUpFrames, thumbsDownFrames,
  pinchFrames, victoryFrames,          \* debounce refs
  lastSnowToggleTime, lastPhotoChangeTime,
  lastModeRef,                         \* mode the pipeline believes is current
  currentMode,                         \* the currentMode prop
  cameraMove,                          \* last value handed to onCameraMove
  now,                                 \* Date.now()
  poses,                               \* the frames the landmark source yields in this session
  out,                                 \* what the last processed frame saw and emitted
  runLabel, runLen,                    \* history: current run of equally classified frames
  dispatchedInRun,                     \* history: onModeChange called in this run since the last prop sync
  streak,                              \* history: processed frames in a row classified like the last one (6: 6 or more)
  lastDispatched,                      \* history: last mode handed to onModeChange
  prevPhotoAt, prevSnowAt,             \* history: time of the last photo change / snow toggle
  mounted,                             \* the controller is mounted (videoRef.current is the video element)
  cleaned,                             \* the effect's cleanup has run
  pc,                                  \* where setupMediaPipe / startWebcam stand
  handLandmarker,                      \* the effect's handLandmarker: "null", "open", "closed"
  stream,                              \* the camera stream: "none", "live"
  listener,                            \* predictWebcam listens to the video's loadeddata event
  rafs,                                \* requested animation frames that have not run yet
  idLive,                              \* animationFrameId names one of them
  loaded,                              \* loadeddata events so far
  gestureStatus,                       \* the status string shown to the user
  lateFrame,                           \* history: a frame was processed after the unmount
  distance,                            \* Experience: distance of the camera from its target
  rendered                             \* Experience: what the last useFrame call saw and applied

refVars  == <<openFrames, closedFrames, thumbsUpFrames, thumbsDownFrames,
              pinchFrames, victoryFrames, lastSnowToggleTime, lastPhotoChangeTime>>
histVars == <<runLabel, runLen, dispatchedInRun, streak, lastDispatched, prevPhotoAt, prevSnowAt>>
lifeVars == <<mounted, cleaned, pc, handLandmarker, stream, listener, rafs, idLive,
              loaded, gestureStatus, lateFrame>>
sceneVars == <<distance, rendered>>
vars     == <<refVars, lastModeRef, currentMode, cameraMove, now, poses, out, histVars, lifeVars,
              sceneVars>>

----------------------------------------------------------------------------
(* Bounds of the model *)

MaxCount  == 7       \* longest run of equally classified frames that is explored
StartTime == 3000    \* Date.now() at mount; stands for an epoch time far above the cooldowns
TickMs    == 500     \* granularity of the clock
TimeSpan  == 2500    \* length of the explored session
MaxLoaded == 2       \* loadeddata events the video element fires at most

(* Program constants *)

CONFIDENCE_THRESHOLD_off == 5 - 1
CONFIDENCE_THRESHOLD == 5

PHOTO_CHANGE_COOLDOWN_off == 500 - 1
PHOTO_CHANGE_COOLDOWN == 500

SNOW_TOGGLE_COOLDOWN_off == 2000 - 1
SNOW_TOGGLE_COOLDOWN == 2000

PINCH_DISTANCE == 50          \* pinchDist < 0.05
MIRROR_MIDLINE == 500         \* handPalmX > 0.5
LANDMARKS == 21               \* landmarks of a hand; the code reads landmarks[0] .. landmarks[20]

\* Experience: distances in 1/1000 of a scene unit, moveSpeed in units per second
MIN_DISTANCE == 10000         \* minDistance={10}
MAX_DISTANCE == 30000         \* maxDistance={30}
MOVE_SPEED == 5               \* moveSpeed = 5

TreeMode == {"FORMED", "CHAOS"}

\* The consumer wires every optional callback (the refs are non-null).
onPhotoChangeRef == TRUE
onCameraMoveRef  == TRUE
onSnowToggleRef  == TRUE
onHandPositionRef == TRUE

Max(a, b) == IF a > b THEN a ELSE b

----------------------------------------------------------------------------
(* Hands: the features detectGesture extracts from one hand's landmarks.   *)
(*   fingerStates  index, middle, ring, pinky extended (tip > 1.5 x base)  *)
(*   thumbExtended thumb tip > 1.2 x thumb base from the wrist             *)
(*   thumbDir      "up" / "down" / "flat": tip vs base y with 0.05 margin  *)
(*   pinchDist     distance thumb tip - index tip                          *)
(*   palm          the landmarks 0, 5, 9, 13, 17 (wrist and the knuckles   *)
(*                 of index, middle, ring, pinky), each an (x, y) point    *)
(*   count         number of landmarks the landmark source delivered       *)

\* Wrist and knuckles of a hand whose palm is centred on (px, py). The sums
\* of the coordinates are 5 * px and 5 * py, so the integer quotient by 5
\* is the mean the code computes in floating point.
PalmAround(px, py) ==
  <<[x |-> px,      y |-> py + 100],
    [x |-> px - 40, y |-> py - 20],
    [x |-> px - 10, y |-> py - 30],
    [x |-> px + 10, y |-> py - 30],
    [x |-> px + 40, y |-> py - 20]>>

PalmY == 600         \* height of the palm centre of the explored hands

Hand(fs, te, dir, pd, px) ==
  [fingerStates |-> fs, thumbExtended |-> te, thumbDir |-> dir, pinchDist |-> pd,
   palm |-> PalmAround(px, PalmY), count |-> LANDMARKS]

\* The same hand with its last landmark (the pinky tip) missing.
Truncated(h) == [h EXCEPT !.count = LANDMARKS - 1]

ShapeOpen    == [fs |-> <<TRUE, TRUE, TRUE, TRUE>>,     te |-> TRUE,  dir |-> "flat"]
ShapeFist    == [fs |-> <<FALSE, FALSE, FALSE, FALSE>>, te |-> FALSE, dir |-> "flat"]
ShapeUp      == [fs |-> <<FALSE, FALSE, FALSE, FALSE>>, te |-> TRUE,  dir |-> "up"]
ShapeDown    == [fs |-> <<FALSE, FALSE, FALSE, FALSE>>, te |-> TRUE,  dir |-> "down"]
ShapeVictory == [fs |-> <<TRUE, TRUE, FALSE, FALSE>>,   te |-> FALSE, dir |-> "flat"]
ShapeThree   == [fs |-> <<TRUE, TRUE, TRUE, FALSE>>,    te |-> FALSE, dir |-> "flat"]
Shapes == {ShapeOpen, ShapeFist, ShapeUp, ShapeDown, ShapeVictory, ShapeThree}

Shaped(s, pd, px) == Hand(s.fs, s.te, s.dir, pd, px)

\* Hands of the explored sessions: every shape without a pinch, a fist at
\* exactly the pinch cutoff, and pinching hands left of, on and right of the
\* image midline.
FarDist  == 200
NearDist == 20
LeftX    == 300
RightX   == 700

Plain(s)      == Shaped(s, FarDist, LeftX)
Pinching(s, px) == Shaped(s, NearDist, px)

\* A session shows the poses of one kind of interaction (and frames without
\* hands): modes and camera, photo browsing, or the snow toggle.
ModeFrames ==
  {<< >>, <<Plain(ShapeOpen)>>, <<Plain(ShapeFist)>>, <<Plain(ShapeUp)>>,
   <<Plain(ShapeDown)>>, <<Plain(ShapeThree)>>,
   <<Plain(ShapeFist), Shaped(ShapeOpen, FarDist, RightX)>>}
PhotoFrames ==
  {<< >>, <<Pinching(ShapeFist, LeftX)>>, <<Pinching(ShapeFist, MIRROR_MIDLINE)>>,
   <<Pinching(ShapeFist, RightX)>>,
   <<Pinching(ShapeFist, LeftX), Pinching(ShapeFist, RightX)>>,
   <<Pinching(ShapeFist, RightX), Pinching(ShapeFist, LeftX)>>,
   <<Plain(ShapeOpen), Pinching(ShapeFist, RightX)>>,
   <<Pinching(ShapeUp, LeftX)>>,
   <<Shaped(ShapeFist, PINCH_DISTANCE, LeftX)>>, <<Plain(ShapeUp)>>}
SnowFrames ==
  {<< >>, <<Plain(ShapeVictory)>>, <<Plain(ShapeOpen)>>, <<Plain(ShapeThree)>>}
Sessions == {ModeFrames, PhotoFrames, SnowFrames}

----------------------------------------------------------------------------
(* detectGesture *)

Refs ==
  [openFrames |-> openFrames, closedFrames |-> closedFrames,
   thumbsUpFrames |-> thumbsUpFrames, thumbsDownFrames |-> thumbsDownFrames,
   pinchFrames |-> pinchFrames, victoryFrames |-> victoryFrames,
   lastSnowToggleTime |-> lastSnowToggleTime,
   lastPhotoChangeTime |-> lastPhotoChangeTime,
   lastModeRef |-> lastModeRef]

\* What one frame hands to the callbacks: mode is an onModeChange argument,
\* photo an onPhotoChange argument, camera an onCameraMove argument ("null"
\* for onCameraMove(null), "nocall" when it is not called), snow whether
\* onSnowToggle was called.
NoEvents == [mode |-> "none", photo |-> "none", camera |-> "nocall", snow |-> FALSE]

Result(r, ev) == [refs |-> r, ev |-> ev]

ExtendedFingers(h) ==
  Cardinality({i \in 1..4 : h.fingerStates[i]}) + (IF h.thumbExtended THEN 1 ELSE 0)

IsHandPinching(h) == h.pinchDist < PINCH_DISTANCE

\* (landmarks[0] + landmarks[5] + landmarks[9] + landmarks[13] + landmarks[17]) / 5
PalmCenter(h) ==
  [x |-> (h.palm[1].x + h.palm[2].x + h.palm[3].x + h.palm[4].x + h.palm[5].x) \div 5,
   y |-> (h.palm[1].y + h.palm[2].y + h.palm[3].y + h.palm[4].y + h.palm[5].y) \div 5]

IsLeftSide(h) == PalmCenter(h).x > MIRROR_MIDLINE

LeftHandPinch(allLandmarks) ==
  \E i \in 1..Len(allLandmarks) :
    IsHandPinching(allLandmarks[i]) /\ IsLeftSide(allLandmarks[i])
RightHandPinch(allLandmarks) ==
  \E i \in 1..Len(allLandmarks) :
    IsHandPinching(allLandmarks[i]) /\ ~IsLeftSide(allLandmarks[i])

IsPinching(allLandmarks) == LeftHandPinch(allLandmarks) \/ RightHandPinch(allLandmarks)

OtherFingersClosed(h) == \A i \in 1..4 : ~h.fingerStates[i]
IsThumbsUp_anyFingers(h) == h.thumbExtended /\ h.thumbDir = "up"
IsThumbsUp(h)   == h.thumbExtended /\ h.thumbDir = "up" /\ OtherFingersClosed(h)
IsThumbsDown(h) == h.thumbExtended /\ h.thumbDir = "down" /\ OtherFingersClosed(h)
IsVictory(h) ==
  /\ h.fingerStates[1] /\ h.fingerStates[2]
  /\ ~h.fingerStates[3] /\ ~h.fingerStates[4] /\ ~h.thumbExtended

\* The branch of the decision chain a frame with at least one hand takes.
Label_thumbsFirst(allLandmarks) ==
  LET h == allLandmarks[1] IN
  IF IsThumbsUp(h) THEN "thumbsUp"
  ELSE IF IsThumbsDown(h) THEN "thumbsDown"
  ELSE IF IsPinching(allLandmarks) THEN "pinch"
  ELSE IF IsVictory(h) THEN "victory"
  ELSE IF ExtendedFingers(h) >= 4 THEN "open"
  ELSE IF ExtendedFingers(h) <= 1 /\ ~h.thumbExtended THEN "closed"
  ELSE "unknown"
Label_anyHandOpen(allLandmarks) ==
  LET h == allLandmarks[1] IN
  IF IsPinching(allLandmarks) THEN "pinch"
  ELSE IF IsThumbsUp(h) THEN "thumbsUp"
  ELSE IF IsThumbsDown(h) THEN "thumbsDown"
  ELSE IF IsVictory(h) THEN "victory"
  ELSE IF \E i \in 1..Len(allLandmarks) : ExtendedFingers(allLandmarks[i]) >= 4 THEN "open"
  ELSE IF ExtendedFingers(h) <= 1 /\ ~h.thumbExtended THEN "closed"
  ELSE "unknown"
Label_openAtThree(allLandmarks) ==
  LET h == allLandmarks[1] IN
  IF IsPinching(allLandmarks) THEN "pinch"
  ELSE IF IsThumbsUp(h) THEN "thumbsUp"
  ELSE IF IsThumbsDown(h) THEN "thumbsDown"
  ELSE IF IsVictory(h) THEN "victory"
  ELSE IF ExtendedFingers(h) >= 3 THEN "open"
  ELSE IF ExtendedFingers(h) <= 1 /\ ~h.thumbExtended THEN "closed"
  ELSE "unknown"
Label(allLandmarks) ==
  LET h == allLandmarks[1] IN
  IF IsPinching(allLandmarks) THEN "pinch"
  ELSE IF IsThumbsUp(h) THEN "thumbsUp"
  ELSE IF IsThumbsDown(h) THEN "thumbsDown"
  ELSE IF IsVictory(h) THEN "victory"
  ELSE IF ExtendedFingers(h) >= 4 THEN "open"
  ELSE IF ExtendedFingers(h) <= 1 /\ ~h.thumbExtended THEN "closed"
  ELSE "unknown"

Only_keepsOpen(r, field) ==
  [r EXCEPT !.openFrames       = IF field = "open"       THEN @ + 1 ELSE @,
            !.closedFrames     = IF field = "closed"     THEN @ + 1 ELSE 0,
            !.thumbsUpFrames   = IF field = "thumbsUp"   THEN @ + 1 ELSE 0,
            !.thumbsDownFrames = IF field = "thumbsDown" THEN @ + 1 ELSE 0,
            !.pinchFrames      = IF field = "pinch"      THEN @ + 1 ELSE 0,
            !.victoryFrames    = IF field = "victory"    THEN @ + 1 ELSE 0]
Only(r, field) ==
  [r EXCEPT !.openFrames       = IF field = "open"       THEN @ + 1 ELSE 0,
            !.closedFrames     = IF field = "closed"     THEN @ + 1 ELSE 0,
            !.thumbsUpFrames   = IF field = "thumbsUp"   THEN @ + 1 ELSE 0,
            !.thumbsDownFrames = IF field = "thumbsDown" THEN @ + 1 ELSE 0,
            !.pinchFrames      = IF field = "pinch"      THEN @ + 1 ELSE 0,
            !.victoryFrames    = IF field = "victory"    THEN @ + 1 ELSE 0]

PinchBranch_rightFirst(r, allLandmarks, t) ==
  LET r1 == Only(r, "pinch") IN
  IF r1.pinchFrames > CONFIDENCE_THRESHOLD /\ onPhotoChangeRef
       /\ t - r1.lastPhotoChangeTime > PHOTO_CHANGE_COOLDOWN
  THEN IF RightHandPinch(allLandmarks)
       THEN Result([r1 EXCEPT !.lastPhotoChangeTime = t], [NoEvents EXCEPT !.photo = "next"])
       ELSE Result([r1 EXCEPT !.lastPhotoChangeTime = t], [NoEvents EXCEPT !.photo = "prev"])
  ELSE Result(r1, NoEvents)
PinchBranch(r, allLandmarks, t) ==
  LET r1 == Only(r, "pinch") IN
  IF r1.pinchFrames > CONFIDENCE_THRESHOLD /\ onPhotoChangeRef
  THEN IF t - r1.lastPhotoChangeTime > PHOTO_CHANGE_COOLDOWN
       THEN IF LeftHandPinch(allLandmarks)
            THEN Result([r1 EXCEPT !.lastPhotoChangeTime = t],
                        [NoEvents EXCEPT !.photo = "prev"])
            ELSE IF RightHandPinch(allLandmarks)
            THEN Result([r1 EXCEPT !.lastPhotoChangeTime = t],
                        [NoEvents EXCEPT !.photo = "next"])
            ELSE Result(r1, NoEvents)
       ELSE Result(r1, NoEvents)
  ELSE Result(r1, NoEvents)

ThumbsUpBranch_onceOnly(r) ==
  LET r1 == Only(r, "thumbsUp") IN
  IF r1.thumbsUpFrames = CONFIDENCE_THRESHOLD + 1 /\ onCameraMoveRef
  THEN Result(r1, [NoEvents EXCEPT !.camera = "forward"])
  ELSE Result(r1, NoEvents)
ThumbsUpBranch(r) ==
  LET r1 == Only(r, "thumbsUp") IN
  IF r1.thumbsUpFrames > CONFIDENCE_THRESHOLD /\ onCameraMoveRef
  THEN Result(r1, [NoEvents EXCEPT !.camera = "forward"])
  ELSE Result(r1, NoEvents)

ThumbsDownBranch(r) ==
  LET r1 == Only(r, "thumbsDown") IN
  IF r1.thumbsDownFrames > CONFIDENCE_THRESHOLD /\ onCameraMoveRef
  THEN Result(r1, [NoEvents EXCEPT !.camera = "backward"])
  ELSE Result(r1, NoEvents)

VictoryBranch_noReset(r, t) ==
  LET r1 == Only(r, "victory") IN
  IF /\ r1.victoryFrames > CONFIDENCE_THRESHOLD
     /\ t - r1.lastSnowToggleTime > SNOW_TOGGLE_COOLDOWN
     /\ onSnowToggleRef
  THEN Result([r1 EXCEPT !.lastSnowToggleTime = t], [NoEvents EXCEPT !.snow = TRUE])
  ELSE Result(r1, NoEvents)
VictoryBranch(r, t) ==
  LET r1 == Only(r, "victory") IN
  IF /\ r1.victoryFrames > CONFIDENCE_THRESHOLD
     /\ t - r1.lastSnowToggleTime > SNOW_TOGGLE_COOLDOWN
     /\ onSnowToggleRef
  THEN Result([r1 EXCEPT !.lastSnowToggleTime = t, !.victoryFrames = 0],
              [NoEvents EXCEPT !.snow = TRUE])
  ELSE Result(r1, NoEvents)

ClearCamera == IF onCameraMoveRef THEN [NoEvents EXCEPT !.camera = "null"] ELSE NoEvents

OpenBranch_unconfirmed(r) ==
  LET r1 == Only(r, "open") IN
  IF r1.lastModeRef # "CHAOS"
  THEN Result([r1 EXCEPT !.lastModeRef = "CHAOS"], [ClearCamera EXCEPT !.mode = "CHAOS"])
  ELSE Result(r1, ClearCamera)
OpenBranch_everyFrame(r) ==
  LET r1 == Only(r, "open") IN
  IF r1.openFrames > CONFIDENCE_THRESHOLD
  THEN Result([r1 EXCEPT !.lastModeRef = "CHAOS"], [ClearCamera EXCEPT !.mode = "CHAOS"])
  ELSE Result(r1, ClearCamera)
OpenBranch(r) ==
  LET r1 == Only(r, "open") IN
  IF r1.openFrames > CONFIDENCE_THRESHOLD /\ r1.lastModeRef # "CHAOS"
  THEN Result([r1 EXCEPT !.lastModeRef = "CHAOS"], [ClearCamera EXCEPT !.mode = "CHAOS"])
  ELSE Result(r1, ClearCamera)

ClosedBranch_noDispatch(r) == Result(Only(r, "closed"), ClearCamera)
ClosedBranch(r) ==
  LET r1 == Only(r, "closed") IN
  IF r1.closedFrames > CONFIDENCE_THRESHOLD /\ r1.lastModeRef # "FORMED"
  THEN Result([r1 EXCEPT !.lastModeRef = "FORMED"], [ClearCamera EXCEPT !.mode = "FORMED"])
  ELSE Result(r1, ClearCamera)

ElseBranch_noClear(r) == Result(Only(r, "unknown"), NoEvents)
ElseBranch(r) == Result(Only(r, "unknown"), ClearCamera)

DetectGesture(r, allLandmarks, t) ==
  LET l == Label(allLandmarks) IN
  CASE l = "pinch"      -> PinchBranch(r, allLandmarks, t)
    [] l = "thumbsUp"   -> ThumbsUpBranch(r)
    [] l = "thumbsDown" -> ThumbsDownBranch(r)
    [] l = "victory"    -> VictoryBranch(r, t)
    [] l = "open"       -> OpenBranch(r)
    [] l = "closed"     -> ClosedBranch(r)
    [] OTHER            -> ElseBranch(r)

\* What a frame hands to onHandPosition: the palm centre of the first hand,
\* (0.5, 0.5, false) without hands; NoPosition when it is not called.
NoPosition == [x |-> -1, y |-> -1, detected |-> FALSE]
Position(px, py, d) == IF onHandPositionRef THEN [x |-> px, y |-> py, detected |-> d] ELSE NoPosition
HandPosition_lastHand(allLandmarks) ==
  LET c == PalmCenter(allLandmarks[Len(allLandmarks)]) IN Position(c.x, c.y, TRUE)
HandPosition(allLandmarks) ==
  LET c == PalmCenter(allLandmarks[1]) IN Position(c.x, c.y, TRUE)
NoHandPosition == Position(500, 500, FALSE)

\* predictWebcam's branch for a frame without hands.
NoHandBranch_reset(r) ==
  Result([r EXCEPT !.openFrames = 0, !.closedFrames = 0], NoEvents)
NoHandBranch(r) ==
  Result([r EXCEPT !.openFrames = Max(0, @ - 1), !.closedFrames = Max(0, @ - 1)], NoEvents)

----------------------------------------------------------------------------
(* The session: predictWebcam once per animation frame, the clock, and the *)
(* effect that copies the currentMode prop into lastModeRef.               *)

Labels == {"pinch", "thumbsUp", "thumbsDown", "victory", "open", "closed", "unknown"}

CounterOf(r, l) ==
  CASE l = "pinch"      -> r.pinchFrames
    [] l = "thumbsUp"   -> r.thumbsUpFrames
    [] l = "thumbsDown" -> r.thumbsDownFrames
    [] l = "victory"    -> r.victoryFrames
    [] l = "open"       -> r.openFrames
    [] l = "closed"     -> r.closedFrames
    [] OTHER            -> 1

\* x coordinates of the palm centres of the pinching hands of a frame.
PinchXs(allLandmarks) ==
  {PalmCenter(allLandmarks[i]).x :
     i \in {j \in 1..Len(allLandmarks) : allLandmarks[j].pinchDist < PINCH_DISTANCE}}

Seen(l, ev, xs, hp) ==
  [label |-> l, mode |-> ev.mode, photo |-> ev.photo, camera |-> ev.camera,
   snow |-> ev.snow, pinchXs |-> xs, hand |-> hp]

\* Experience has not rendered yet.
NoRender == [controls |-> FALSE, move |-> "null", detected |-> FALSE,
             dollied |-> FALSE, rotated |-> FALSE]

\* No frame has been processed yet.
Fresh ==
  /\ out = Seen("init", NoEvents, {}, NoPosition)
  /\ runLabel = "init" /\ runLen = 0
  /\ dispatchedInRun = FALSE
  /\ streak = 0
  /\ lastDispatched = "none"
  /\ prevPhotoAt = -1 /\ prevSnowAt = -1
  /\ lateFrame = FALSE
  /\ rendered = NoRender

\* The detector is created, the camera streams, the loadeddata event has
\* started the polling loop and one animation frame is requested.
Running ==
  /\ mounted = TRUE /\ cleaned = FALSE
  /\ pc = "ready" /\ handLandmarker = "open" /\ stream = "live" /\ listener = TRUE
  /\ rafs = 1 /\ idLive = TRUE /\ loaded = 1
  /\ gestureStatus = "Waiting for hand..."

Init ==
  /\ openFrames = 0 /\ closedFrames = 0 /\ thumbsUpFrames = 0
  /\ thumbsDownFrames = 0 /\ pinchFrames = 0 /\ victoryFrames = 0
  /\ lastSnowToggleTime = 0 /\ lastPhotoChangeTime = 0
  /\ currentMode \in TreeMode
  /\ lastModeRef = currentMode
  /\ cameraMove = "null"
  /\ now = StartTime
  /\ poses \in Sessions
  /\ Fresh
  /\ Running
  /\ distance = (MIN_DISTANCE + MAX_DISTANCE) \div 2

Store(r) ==
  /\ openFrames' = r.openFrames /\ closedFrames' = r.closedFrames
  /\ thumbsUpFrames' = r.thumbsUpFrames /\ thumbsDownFrames' = r.thumbsDownFrames
  /\ pinchFrames' = r.pinchFrames /\ victoryFrames' = r.victoryFrames
  /\ lastSnowToggleTime' = r.lastSnowToggleTime
  /\ lastPhotoChangeTime' = r.lastPhotoChangeTime
  /\ lastModeRef' = r.lastModeRef

\* The consumer and the history variables take note of one frame's events.
Emit(l, ev, xs, hp) ==
  /\ out' = Seen(l, ev, xs, hp)
  /\ cameraMove' = IF ev.camera = "nocall" THEN cameraMove ELSE ev.camera
  /\ lastDispatched' = IF ev.mode = "none" THEN lastDispatched ELSE ev.mode
  /\ prevPhotoAt' = IF ev.photo = "none" THEN prevPhotoAt ELSE now
  /\ prevSnowAt' = IF ev.snow THEN now ELSE prevSnowAt

\* A hand with fewer than 21 landmarks: drawSingleHandSkeleton reads
\* landmarks[20].x of every hand of the frame.
Malformed(allLandmarks) ==
  \E i \in 1..Len(allLandmarks) : allLandmarks[i].count < LANDMARKS

\* One call of predictWebcam: from an animation frame (consumed = 1, wasId
\* telling whether it is the frame animationFrameId names) or from the
\* loadeddata event (consumed = 0). With the video not ready (videoWidth = 0)
\* nothing is detected and only the next frame is requested. The TypeError
\* of a malformed hand leaves the function before the next frame is
\* requested.
PredictWebcamCall_unguarded(consumed, wasId) ==
    \E videoWidth \in {0, 320}, allLandmarks \in poses :
      IF videoWidth = 0
      THEN /\ rafs' = rafs - consumed + 1 /\ idLive' = TRUE
           /\ UNCHANGED <<refVars, lastModeRef, currentMode, cameraMove, now, poses, out,
                          histVars, mounted, cleaned, pc, handLandmarker, stream, listener,
                          gestureStatus, lateFrame>>
      ELSE
        /\ UNCHANGED <<now, currentMode, poses, mounted, cleaned, pc, handLandmarker,
                       stream, listener>>
        /\ lateFrame' = (lateFrame \/ ~mounted)
        /\ IF Len(allLandmarks) > 0
           THEN LET l      == Label(allLandmarks)
                    res    == DetectGesture(Refs, allLandmarks, now)
                    newRun == l # runLabel \/ CounterOf(Refs, l) = 0
                IN /\ runLen' = IF newRun THEN 1 ELSE runLen + 1
                   /\ runLen' <= MaxCount
                   /\ runLabel' = l
                   /\ streak' = IF out.label # l THEN 1 ELSE IF streak < 6 THEN streak + 1 ELSE 6
                   /\ dispatchedInRun' = IF res.ev.mode # "none" THEN TRUE
                                         ELSE IF newRun THEN FALSE ELSE dispatchedInRun
                   /\ Store(res.refs)
                   /\ Emit(l, res.ev, PinchXs(allLandmarks), HandPosition(allLandmarks))
                   /\ gestureStatus' = "Detected"
                   /\ rafs' = rafs - consumed + 1 /\ idLive' = TRUE
           ELSE LET res == NoHandBranch(Refs)
                IN /\ Store(res.refs)
                   /\ Emit("nohand", res.ev, {}, NoHandPosition)
                   /\ gestureStatus' = "No hand detected"
                   /\ UNCHANGED <<runLabel, runLen, dispatchedInRun>>
                   /\ streak' = 0
                   /\ rafs' = rafs - consumed + 1 /\ idLive' = TRUE
PredictWebcamCall(consumed, wasId) ==
  IF handLandmarker = "null" \/ ~mounted
  THEN /\ rafs' = rafs - consumed /\ idLive' = (idLive /\ ~wasId)
       /\ UNCHANGED <<refVars, lastModeRef, currentMode, cameraMove, now, poses, out,
                      histVars, mounted, cleaned, pc, handLandmarker, stream, listener,
                      gestureStatus, lateFrame>>
  ELSE
    \E videoWidth \in {0, 320}, allLandmarks \in poses :
      IF videoWidth = 0
      THEN /\ rafs' = rafs - consumed + 1 /\ idLive' = TRUE
           /\ UNCHANGED <<refVars, lastModeRef, currentMode, cameraMove, now, poses, out,
                          histVars, mounted, cleaned, pc, handLandmarker, stream, listener,
                          gestureStatus, lateFrame>>
      ELSE
        /\ UNCHANGED <<now, currentMode, poses, mounted, cleaned, pc, handLandmarker,
                       stream, listener>>
        /\ lateFrame' = (lateFrame \/ ~mounted)
        /\ IF Len(allLandmarks) > 0 /\ Malformed(allLandmarks)
           THEN /\ out' = Seen("malformed", NoEvents, {}, NoPosition)
                /\ rafs' = rafs - consumed /\ idLive' = (idLive /\ ~wasId)
                /\ UNCHANGED <<refVars, lastModeRef, cameraMove, histVars, gestureStatus>>
           ELSE IF Len(allLandmarks) > 0
           THEN LET l      == Label(allLandmarks)
                    res    == DetectGesture(Refs, allLandmarks, now)
                    newRun == l # runLabel \/ CounterOf(Refs, l) = 0
                IN /\ runLen' = IF newRun THEN 1 ELSE runLen + 1
                   /\ runLen' <= MaxCount
                   /\ runLabel' = l
                   /\ streak' = IF out.label # l THEN 1 ELSE IF streak < 6 THEN streak + 1 ELSE 6
                   /\ dispatchedInRun' = IF res.ev.mode # "none" THEN TRUE
                                         ELSE IF newRun THEN FALSE ELSE dispatchedInRun
                   /\ Store(res.refs)
                   /\ Emit(l, res.ev, PinchXs(allLandmarks), HandPosition(allLandmarks))
                   /\ gestureStatus' = "Detected"
                   /\ rafs' = rafs - consumed + 1 /\ idLive' = TRUE
           ELSE LET res == NoHandBranch(Refs)
                IN /\ Store(res.refs)
                   /\ Emit("nohand", res.ev, {}, NoHandPosition)
                   /\ gestureStatus' = "No hand detected"
                   /\ UNCHANGED <<runLabel, runLen, dispatchedInRun>>
                   /\ streak' = 0
                   /\ rafs' = rafs - consumed + 1 /\ idLive' = TRUE

\* An animation frame runs predictWebcam.
PredictWebcam ==
  /\ rafs > 0
  /\ \E wasId \in BOOLEAN :
       /\ wasId => idLive
       /\ ~wasId => rafs > (IF idLive THEN 1 ELSE 0)
       /\ PredictWebcamCall(1, wasId)
  /\ UNCHANGED <<loaded, sceneVars>>

\* Wall-clock time passes between animation frames.
Tick ==
  /\ now + TickMs <= StartTime + TimeSpan
  /\ now' = now + TickMs
  /\ UNCHANGED <<refVars, lastModeRef, currentMode, cameraMove, poses, out, histVars, lifeVars,
                 sceneVars>>

\* useEffect(() => { lastModeRef.current = currentMode }, [currentMode]):
\* the parent re-renders the controller with another mode.
SyncMode_resetsCounters ==
  \E m \in TreeMode \ {currentMode} :
    /\ currentMode' = m
    /\ lastModeRef' = m
    /\ dispatchedInRun' = FALSE
    /\ openFrames' = 0 /\ closedFrames' = 0
    /\ UNCHANGED <<thumbsUpFrames, thumbsDownFrames, pinchFrames, victoryFrames,
                   lastSnowToggleTime, lastPhotoChangeTime, cameraMove, now, poses, out,
                   runLabel, runLen, streak, lastDispatched, prevPhotoAt, prevSnowAt, lifeVars, sceneVars>>
SyncMode ==
  \E m \in TreeMode \ {currentMode} :
    /\ currentMode' = m
    /\ lastModeRef' = m
    /\ dispatchedInRun' = FALSE
    /\ UNCHANGED <<refVars, cameraMove, now, poses, out,
                   runLabel, runLen, streak, lastDispatched, prevPhotoAt, prevSnowAt, lifeVars, sceneVars>>

Next == PredictWebcam \/ Tick \/ SyncMode

Spec == Init /\ [][Next]_vars

----------------------------------------------------------------------------
(* The life cycle of the detection effect: setupMediaPipe and startWebcam   *)
(* with their awaits, the loadeddata event, the unmount of the controller   *)
(* (React empties videoRef) and the effect's cleanup, which runs after it.  *)
(*   pc  "wasm"    awaiting FilesetResolver.forVisionTasks                  *)
(*       "model"   awaiting HandLandmarker.createFromOptions                *)
(*       "media"   awaiting getUserMedia                                    *)
(*       "ready"   getUserMedia resolved                                    *)
(*       "failed"  setupMediaPipe's catch ran                               *)
(*       "denied"  startWebcam's catch ran                                  *)
(*       "nomedia" navigator.mediaDevices.getUserMedia does not exist       *)

pipeVars == <<refVars, lastModeRef, currentMode, cameraMove, now, poses, out, histVars>>

\* setGestureStatus; a state update of an unmounted component is dropped.
SetGestureStatus(s) == gestureStatus' = IF mounted THEN s ELSE gestureStatus

\* await FilesetResolver.forVisionTasks(...) settles.
ResolveVision ==
  /\ pc = "wasm"
  /\ \E ok \in BOOLEAN :
       IF ok THEN pc' = "model" /\ UNCHANGED gestureStatus
       ELSE pc' = "failed" /\ SetGestureStatus("Gesture control unavailable")
  /\ UNCHANGED <<pipeVars, mounted, cleaned, handLandmarker, stream, listener, rafs,
                 idLive, loaded, lateFrame, sceneVars>>

\* await HandLandmarker.createFromOptions(...) settles; on success
\* startWebcam is called and runs up to its await.
CreateLandmarker ==
  /\ pc = "model"
  /\ \E ok \in BOOLEAN, hasGetUserMedia \in BOOLEAN :
       IF ok
       THEN /\ handLandmarker' = "open"
            /\ pc' = IF hasGetUserMedia THEN "media" ELSE "nomedia"
            /\ UNCHANGED gestureStatus
       ELSE /\ pc' = "failed"
            /\ SetGestureStatus("Gesture control unavailable")
            /\ UNCHANGED handLandmarker
  /\ UNCHANGED <<pipeVars, mounted, cleaned, stream, listener, rafs, idLive, loaded, lateFrame,
                 sceneVars>>

\* await navigator.mediaDevices.getUserMedia(...) settles.
GetUserMedia ==
  /\ pc = "media"
  /\ \E ok \in BOOLEAN :
       IF ok
       THEN /\ pc' = "ready"
            /\ stream' = "live"
            /\ listener' = (listener \/ mounted)
            /\ SetGestureStatus("Waiting for hand...")
       ELSE /\ pc' = "denied"
            /\ SetGestureStatus("Permission Denied")
            /\ UNCHANGED <<stream, listener>>
  /\ UNCHANGED <<pipeVars, mounted, cleaned, handLandmarker, rafs, idLive, loaded, lateFrame,
                 sceneVars>>

\* The video element fires loadeddata and calls its listener predictWebcam.
LoadedData ==
  /\ listener /\ stream = "live"
  /\ loaded < MaxLoaded
  /\ loaded' = loaded + 1
  /\ PredictWebcamCall(0, FALSE)
  /\ UNCHANGED sceneVars

\* The controller is unmounted: React sets videoRef.current to null.
Unmount ==
  /\ mounted
  /\ mounted' = FALSE
  /\ UNCHANGED <<pipeVars, cleaned, pc, handLandmarker, stream, listener, rafs, idLive,
                 loaded, gestureStatus, lateFrame, sceneVars>>

\* The effect's cleanup: cancelAnimationFrame(animationFrameId) and
\* handLandmarker.close() if the detector exists by now.
Cleanup ==
  /\ ~mounted /\ ~cleaned
  /\ cleaned' = TRUE
  /\ rafs' = IF idLive THEN rafs - 1 ELSE rafs
  /\ idLive' = FALSE
  /\ handLandmarker' = IF handLandmarker = "open" THEN "closed" ELSE handLandmarker
  /\ UNCHANGED <<pipeVars, mounted, pc, stream, listener, loaded, gestureStatus, lateFrame,
                 sceneVars>>

\* Sessions of the life cycle: an open hand that comes and goes, and an open
\* hand whose landmark list now and then lacks its last entry.
LifeSessions ==
  {{<< >>, <<Plain(ShapeOpen)>>},
   {<<Plain(ShapeOpen)>>, <<Truncated(Plain(ShapeOpen))>>},
   {<<Plain(ShapeFist)>>, <<Plain(ShapeFist), Truncated(Plain(ShapeOpen))>>}}

InitLife ==
  /\ openFrames = 0 /\ closedFrames = 0 /\ thumbsUpFrames = 0
  /\ thumbsDownFrames = 0 /\ pinchFrames = 0 /\ victoryFrames = 0
  /\ lastSnowToggleTime = 0 /\ lastPhotoChangeTime = 0
  /\ currentMode \in TreeMode
  /\ lastModeRef = currentMode
  /\ cameraMove = "null"
  /\ now = StartTime
  /\ poses \in LifeSessions
  /\ Fresh
  /\ distance = (MIN_DISTANCE + MAX_DISTANCE) \div 2
  /\ mounted = TRUE /\ cleaned = FALSE
  /\ pc = "wasm" /\ handLandmarker = "null" /\ stream = "none" /\ listener = FALSE
  /\ rafs = 0 /\ idLive = FALSE /\ loaded = 0
  /\ gestureStatus = "Initializing..."

NextLife ==
  \/ ResolveVision \/ CreateLandmarker \/ GetUserMedia \/ LoadedData
  \/ PredictWebcam \/ Unmount \/ Cleanup

SpecLife == InitLife /\ [][NextLife]_vars

----------------------------------------------------------------------------
(* The camera layer: Experience's useFrame callback, which reads the       *)
(* cameraMove and handPosition props the gesture callbacks have set. The   *)
(* rotation puts the camera on the sphere of its current distance, so it   *)
(* leaves the distance alone; its angles are not part of the model.        *)

\* Render frames of 0.5 s and of 3 s (a stalled tab), in milliseconds.
Deltas == {500, 3000}

\* The first branch of useFrame moves the camera.
DollyApplies(d, move) ==
  \/ move = "forward" /\ d > MIN_DISTANCE
  \/ move = "backward" /\ d < MAX_DISTANCE

\* The distance after the first branch of useFrame.
Dolly_unclamped(d, move, delta) ==
  IF move = "forward" /\ d > MIN_DISTANCE THEN d - MOVE_SPEED * delta
  ELSE IF move = "backward" /\ d < MAX_DISTANCE THEN d + MOVE_SPEED * delta
  ELSE d
Dolly(d, move, delta) ==
  IF move = "forward" /\ d > MIN_DISTANCE THEN Max(MIN_DISTANCE, d - MOVE_SPEED * delta)
  ELSE IF move = "backward" /\ d < MAX_DISTANCE
  THEN (IF d + MOVE_SPEED * delta < MAX_DISTANCE THEN d + MOVE_SPEED * delta ELSE MAX_DISTANCE)
  ELSE d

\* The second branch of useFrame turns the camera.
Rotates(detected, move) == detected /\ move = "null"

UseFrame ==
  /\ \E hasControls \in BOOLEAN, delta \in Deltas :
       IF ~hasControls
       THEN rendered' = NoRender /\ UNCHANGED distance
       ELSE /\ distance' = Dolly(distance, cameraMove, delta)
            /\ rendered' = [controls |-> TRUE, move |-> cameraMove,
                            detected |-> out.hand.detected,
                            dollied |-> DollyApplies(distance, cameraMove),
                            rotated |-> Rotates(out.hand.detected, cameraMove)]
  /\ UNCHANGED <<pipeVars, lifeVars>>

\* A session of camera gestures: thumbs-up, thumbs-down, an open hand and
\* frames without hands; the camera starts at either limit or in between.
CameraFrames == {<< >>, <<Plain(ShapeUp)>>, <<Plain(ShapeDown)>>, <<Plain(ShapeOpen)>>}
StartDistances == {MIN_DISTANCE, (MIN_DISTANCE + MAX_DISTANCE) \div 2, MAX_DISTANCE}

InitCamera ==
  /\ openFrames = 0 /\ closedFrames = 0 /\ thumbsUpFrames = 0
  /\ thumbsDownFrames = 0 /\ pinchFrames = 0 /\ victoryFrames = 0
  /\ lastSnowToggleTime = 0 /\ lastPhotoChangeTime = 0
  /\ currentMode \in TreeMode
  /\ lastModeRef = currentMode
  /\ cameraMove = "null"
  /\ now = StartTime
  /\ poses = CameraFrames
  /\ Fresh
  /\ Running
  /\ distance \in StartDistances

NextCamera == PredictWebcam \/ UseFrame

SpecCamera == InitCamera /\ [][NextCamera]_vars

----------------------------------------------------------------------------
(* Classification on its own: a session that shows one pose over and over, *)
(* now and then losing the hands, the pose drawn from every combination of  *)
(* first-hand features, with and without a second hand.                     *)

AllShapes ==
  {[fs |-> <<a, b, c, d>>, te |-> t, dir |-> o] :
     a \in BOOLEAN, b \in BOOLEAN, c \in BOOLEAN, d \in BOOLEAN,
     t \in BOOLEAN, o \in {"up", "down", "flat"}}
AllFirstHands ==
  {Shaped(s, pd, px) : s \in AllShapes, pd \in {NearDist, PINCH_DISTANCE}, px \in {LeftX, RightX}}
OtherHands ==
  {Shaped(ShapeOpen, FarDist, RightX), Shaped(ShapeUp, FarDist, RightX), Pinching(ShapeFist, RightX)}
AllFrames ==
  {<<h>> : h \in AllFirstHands} \cup {<<h1, h2>> : h1 \in AllFirstHands, h2 \in OtherHands}

InitClassify ==
  /\ openFrames = 0 /\ closedFrames = 0 /\ thumbsUpFrames = 0
  /\ thumbsDownFrames = 0 /\ pinchFrames = 0 /\ victoryFrames = 0
  /\ lastSnowToggleTime = 0 /\ lastPhotoChangeTime = 0
  /\ currentMode \in TreeMode
  /\ lastModeRef = currentMode
  /\ cameraMove = "null"
  /\ now = StartTime
  /\ poses \in {{f, << >>} : f \in AllFrames}
  /\ Fresh
  /\ Running
  /\ distance = (MIN_DISTANCE + MAX_DISTANCE) \div 2

SpecClassify == InitClassify /\ [][PredictWebcam]_vars

----------------------------------------------------------------------------
(* Properties *)

\* A step that changes the state and leaves the clock and the currentMode
\* prop alone is a predictWebcam call; out' is then what that frame emitted.
IsFrame == now' = now /\ currentMode' = currentMode

\* The last processed frame dispatched the mode change or action of its label.
Dispatched ==
  CASE out.label = "open"       -> out.mode = "CHAOS"
    [] out.label = "closed"     -> out.mode = "FORMED"
    [] out.label = "pinch"      -> out.photo # "none"
    [] out.label = "victory"    -> out.snow
    [] out.label = "thumbsUp"   -> out.camera = "forward"
    [] out.label = "thumbsDown" -> out.camera = "backward"
    [] OTHER                    -> FALSE

NoEarlyDispatch == Dispatched => runLen >= 6

\* The gate of a label's action stands open: the mode differs, the cooldown is over.
GateOpen(l) ==
  CASE l = "open"    -> lastModeRef # "CHAOS"
    [] l = "closed"  -> lastModeRef # "FORMED"
    [] l = "pinch"   -> now - lastPhotoChangeTime > 500
    [] l = "victory" -> now - lastSnowToggleTime > 2000
    [] OTHER         -> TRUE

SixthFrameDispatches ==
  (/\ IsFrame
   /\ out'.label \in Labels \ {"unknown"}
   /\ runLabel = out'.label /\ runLen = 5 /\ CounterOf(Refs, out'.label) = 5
   /\ GateOpen(out'.label))
    => Dispatched'

C2_DiffersFromLastDispatched ==
  [][(IsFrame /\ out'.mode # "none") => out'.mode # lastDispatched]_vars

\* C2 amended: onModeChange(m) is only invoked when m differs from
\* lastModeRef, which then becomes m; within one run of equally classified
\* frames a second mode change needs a change of the currentMode prop in
\* between.
C2_EdgeTriggered ==
  [][(IsFrame /\ out'.mode # "none")
       => /\ out'.mode # lastModeRef
          /\ lastModeRef' = out'.mode
          /\ ~dispatchedInRun]_vars

C2_Witness ==
  /\ out.label = "closed" /\ closedFrames = 7 /\ runLen = 7
  /\ out.mode = "none" /\ dispatchedInRun /\ lastDispatched = "FORMED"

\* C3: after a frame classified open-hand whose open counter exceeds 5 the
\* last mode is CHAOS, after a frame classified closed-fist whose closed
\* counter exceeds 5 it is FORMED.
C3_ConfirmedModeIsSet ==
  [][IsFrame =>
       /\ (out'.label = "open" /\ openFrames' > 5) => lastModeRef' = "CHAOS"
       /\ (out'.label = "closed" /\ closedFrames' > 5) => lastModeRef' = "FORMED"]_vars

C3_Witness ==
  /\ out.label = "closed" /\ closedFrames = 6 /\ out.mode = "FORMED"
  /\ lastModeRef = "FORMED" /\ currentMode = "CHAOS"

ConfirmedModeFrame ==
  \/ out.label = "open" /\ openFrames > 5
  \/ out.label = "closed" /\ closedFrames > 5

\* C4: a mode change is emitted only in a frame classified open-hand or
\* closed-fist whose counter exceeds 5; every other frame (pinch, thumbs-up,
\* thumbs-down, victory, unrecognized, no hand) calls no onModeChange and
\* leaves the last mode as it is.
C4_ModeOnlyFromConfirmedOpenClosed ==
  /\ [](out.mode # "none" => ConfirmedModeFrame)
  /\ [][(IsFrame /\ ~ConfirmedModeFrame')
          => (out'.mode = "none" /\ lastModeRef' = lastModeRef)]_vars

C4_Witness ==
  /\ out.label = "thumbsUp" /\ thumbsUpFrames = 6
  /\ lastDispatched = "CHAOS" /\ lastModeRef = "CHAOS"

\* C5: a photo change is dispatched only when more than 500 ms have passed
\* since the previous one; a confirmed pinch within 500 ms dispatches nothing.
C5_PhotoChangesApart ==
  [][(IsFrame /\ out'.photo # "none" /\ prevPhotoAt # -1) => now - prevPhotoAt > 500]_vars

C5_Witness ==
  /\ out.label = "pinch" /\ out.photo # "none" /\ pinchFrames = 7
  /\ prevPhotoAt = now

\* C6: a snow toggle is dispatched only when more than 2000 ms have passed
\* since the previous one, and a victory frame that takes the counter past
\* 5 more than 2000 ms after the previous toggle dispatches one.
C6_SnowToggleCooldown ==
  /\ [][(IsFrame /\ out'.snow /\ prevSnowAt # -1) => now - prevSnowAt > 2000]_vars
  /\ [][(/\ IsFrame /\ out'.label = "victory"
         /\ runLabel = "victory" /\ victoryFrames >= 5
         /\ (prevSnowAt = -1 \/ now - prevSnowAt > 2000))
          => (out'.snow /\ prevSnowAt' = now)]_vars

C6_Witness ==
  /\ prevSnowAt # -1 /\ now - prevSnowAt > 2000
  /\ out.label = "victory" /\ victoryFrames = 5

\* C7: a frame in which some hand pinches is classified pinch whatever the
\* first hand shows; it adds 1 to the pinch counter, zeroes the other five
\* and emits no mode change, camera command or snow toggle.
C7_PinchHasPriority ==
  /\ [](out.pinchXs # {} => /\ out.label = "pinch"
                            /\ out.mode = "none" /\ out.camera = "nocall" /\ ~out.snow)
  /\ [][(IsFrame /\ out'.pinchXs # {})
          => /\ pinchFrames' = pinchFrames + 1
             /\ openFrames' = 0 /\ closedFrames' = 0 /\ victoryFrames' = 0
             /\ thumbsUpFrames' = 0 /\ thumbsDownFrames' = 0]_vars

C7_Witness ==
  /\ out.label = "pinch" /\ pinchFrames = 6
  /\ \E f \in poses :
       /\ Len(f) = 2 /\ f[1].pinchDist >= 50
       /\ f[1].thumbExtended /\ f[1].thumbDir = "up"
       /\ \A i \in 1..4 : ~f[1].fingerStates[i]

\* C8: a dispatched photo change is 'prev' if some pinching hand has its
\* palm centre at x > 0.5 and 'next' otherwise (x = 0.5 included); with
\* pinching hands on both sides it is 'prev'.
C8_PhotoDirection ==
  out.photo # "none"
    => /\ out.pinchXs # {}
       /\ out.photo = IF \E x \in out.pinchXs : x > 500 THEN "prev" ELSE "next"

C8_Witness == out.photo = "prev" /\ out.pinchXs = {LeftX, RightX}

\* C9: a frame without hands takes 1 off the open and the closed counter,
\* not below 0; an open-hand frame right after such a frame that left the
\* open counter at 5 or more (6 or more before the gap) is confirmed again.
C9_NoHandDecays ==
  /\ [][(IsFrame /\ out'.label = "nohand")
          => /\ openFrames' = Max(0, openFrames - 1)
             /\ closedFrames' = Max(0, closedFrames - 1)]_vars
  /\ [][(IsFrame /\ out.label = "nohand" /\ openFrames >= 5 /\ out'.label = "open")
          => (openFrames' > 5 /\ lastModeRef' = "CHAOS")]_vars

C9_Witness == out.label = "open" /\ openFrames = 6 /\ runLen = 7

\* C10: a frame without hands tells the consumer 'none' when the camera
\* command was forward or backward.
C10_NoHandClearsCamera ==
  [][(IsFrame /\ out'.label = "nohand" /\ cameraMove \in {"forward", "backward"})
       => (out'.camera = "null" /\ cameraMove' = "null")]_vars

\* C11: after every processed frame the camera command the consumer holds
\* is forward exactly when that frame was classified thumbs-up with the
\* thumbs-up counter above 5, backward exactly when it was classified
\* thumbs-down with the thumbs-down counter above 5, and none after every
\* other frame (pinch, victory, thumbs frames not yet confirmed, ...).
C11_CameraLevelTriggered ==
  out.label # "init"
    => cameraMove = IF out.label = "thumbsUp" /\ thumbsUpFrames > 5 THEN "forward"
                    ELSE IF out.label = "thumbsDown" /\ thumbsDownFrames > 5 THEN "backward"
                    ELSE "null"

\* C12: every frame classified thumbs-up whose counter exceeds 5 calls
\* onCameraMove('forward'), and every frame classified thumbs-down whose
\* counter exceeds 5 calls onCameraMove('backward'): the 7th frame of a run
\* as well as the 6th.
C12_ThumbsAreHeld ==
  [][IsFrame =>
       /\ (out'.label = "thumbsUp" /\ thumbsUpFrames' > 5)
            => (out'.camera = "forward" /\ cameraMove' = "forward")
       /\ (out'.label = "thumbsDown" /\ thumbsDownFrames' > 5)
            => (out'.camera = "backward" /\ cameraMove' = "backward")]_vars

C12_Witness ==
  out.label = "thumbsUp" /\ thumbsUpFrames = 7 /\ runLen = 7 /\ out.camera = "forward"

\* C13: the frame that toggles the snow leaves the victory counter at 0, and
\* a snow toggle only comes in the 6th or a later frame of a run of victory
\* frames that started from a counter of 0.
C13_VictoryResets ==
  /\ [][(IsFrame /\ out'.snow) => victoryFrames' = 0]_vars
  /\ [](out.snow => (out.label = "victory" /\ runLabel = "victory" /\ runLen >= 6))

C13_Witness ==
  /\ out.snow /\ victoryFrames = 0 /\ runLen = 6
  /\ prevSnowAt # -1 /\ prevSnowAt < now - 2000

\* C14: the frame that dispatches a photo change leaves the pinch counter
\* at 0.
C14_PinchResets ==
  [][(IsFrame /\ out'.photo # "none") => pinchFrames' = 0]_vars

\* C20: the six debounce counters are never negative and at most one of
\* them is above 0; a frame classified with a label zeroes the counters of
\* the other labels (an unrecognized frame all six), and a frame without
\* hands raises none of them.
Counters == <<openFrames, closedFrames, thumbsUpFrames, thumbsDownFrames, pinchFrames, victoryFrames>>
CounterLabels == <<"open", "closed", "thumbsUp", "thumbsDown", "pinch", "victory">>
C20_OneCounterAtATime ==
  /\ [](/\ \A i \in 1..6 : Counters[i] >= 0
        /\ Cardinality({i \in 1..6 : Counters[i] > 0}) <= 1)
  /\ [][(IsFrame /\ out'.label \in Labels)
          => \A i \in 1..6 : CounterLabels[i] # out'.label => Counters'[i] = 0]_vars
  /\ [][(IsFrame /\ out'.label = "nohand")
          => \A i \in 1..6 : Counters'[i] <= Counters[i]]_vars

C20_Witness ==
  /\ out.label = "closed" /\ closedFrames = 1 /\ openFrames = 0
  /\ lastDispatched = "CHAOS" /\ lastModeRef = "CHAOS" /\ now = StartTime

\* C15: a frame without hands reports the position (0.5, 0.5, not
\* detected); a frame with hands reports the mean of the landmarks 0, 5, 9,
\* 13, 17 of its first hand as detected, whatever the frame is classified as
\* and whatever a second hand shows.
C15_HandPosition ==
  \A f \in poses : Len(f) > 0 =>
    /\ out.label = "nohand" => out.hand = [x |-> 500, y |-> 500, detected |-> FALSE]
    /\ out.label \in Labels
         => /\ out.hand.detected
            /\ 5 * out.hand.x = f[1].palm[1].x + f[1].palm[2].x + f[1].palm[3].x
                                  + f[1].palm[4].x + f[1].palm[5].x
            /\ 5 * out.hand.y = f[1].palm[1].y + f[1].palm[2].y + f[1].palm[3].y
                                  + f[1].palm[4].y + f[1].palm[5].y

C15_Witness ==
  /\ out.label = "pinch" /\ out.hand = [x |-> LeftX, y |-> PalmY, detected |-> TRUE]
  /\ out.pinchXs = {RightX}
  /\ \E f \in poses : Len(f) = 2 /\ f[1].thumbDir = "up" /\ f[1].thumbExtended

\* C16: once the controller is unmounted no frame is processed and no
\* callback is emitted any more: the counters, timestamps, last mode and
\* everything handed to the consumer stay as they are, and no further
\* animation frame is requested, whether the unmount comes before or after
\* the detector and the camera are ready, before or after loadeddata, with
\* or without an animation frame pending.
C16_NoFrameAfterUnmount ==
  /\ [](~lateFrame)
  /\ [][~mounted => (UNCHANGED pipeVars /\ rafs' <= rafs)]_vars

C16_Witness ==
  /\ ~mounted /\ ~cleaned /\ rafs = 0 /\ loaded = 1
  /\ out.label = "nohand" /\ handLandmarker = "open"

Settled == pc \in {"ready", "failed", "denied", "nomedia"}

\* C17: when the controller is unmounted, its cleanup has run and the
\* set-up has settled, the detector is not open and the camera stream is
\* not live.
C17_ResourcesReleased ==
  (~mounted /\ cleaned /\ Settled) => (handLandmarker # "open" /\ stream # "live")

\* C18: when the detector cannot be created, the camera is refused or
\* getUserMedia does not exist, the status string reports it, no listener
\* is attached, no animation frame is requested, no frame is ever
\* processed, and the set-up is not started again.
C18_InitFailureReported ==
  /\ []((mounted /\ pc \in {"failed", "denied", "nomedia"})
          => /\ gestureStatus \in {"Gesture control unavailable", "Permission Denied"}
             /\ ~listener /\ rafs = 0 /\ out.label = "init")
  /\ [][(pc \in {"failed", "denied", "nomedia"}) => (pc' = pc)]_vars

\* C19: a frame with a hand of fewer than 21 landmarks leaves the counters,
\* the cooldown timestamps and the last mode as they are, and the next
\* animation frame is requested.
C19_MalformedFrameSkipped ==
  [][(out'.label = "malformed" /\ out.label # "malformed")
       => (UNCHANGED <<refVars, lastModeRef>> /\ rafs' > 0)]_vars

\* C21: a frame without hands lowers every debounce counter that is above
\* 0 (by one or to 0): the pinch, victory, thumbs-up and thumbs-down
\* counters as well as the open and closed ones.
C21_NoHandReducesAll ==
  [][(IsFrame /\ out'.label = "nohand")
       => \A i \in 1..6 : Counters[i] > 0 => Counters'[i] < Counters[i]]_vars

\* C26: every frame classified open-hand, closed-fist or unrecognized calls
\* onCameraMove(null), below the confirmation threshold as well as above it.
C26_OpenClosedElseClearCamera ==
  [][(IsFrame /\ out'.label \in {"open", "closed", "unknown"})
       => (out'.camera = "null" /\ cameraMove' = "null")]_vars

C26_Witness ==
  /\ out.label = "unknown" /\ out.camera = "null" /\ cameraMove = "null"
  /\ runLabel = "unknown" /\ runLen = 1 /\ lastDispatched = "FORMED"

\* C22: a photo change, a snow toggle or a forward / backward command is
\* dispatched only in a frame that is at least the 6th of an unbroken row of
\* processed frames classified pinch, victory, thumbs-up or thumbs-down
\* respectively; a frame without hands breaks the row as a frame of another
\* label does.
C22_DispatchNeedsUnbrokenRun ==
  (out.photo # "none" \/ out.snow \/ out.camera \in {"forward", "backward"}) => streak >= 6

\* C23: with no hand of the frame pinching, the label and the counters,
\* timestamps and last mode after the frame are those of the frame that
\* holds the first hand alone, whatever a second hand shows (an open hand,
\* a thumbs-up).
C23_OnlyFirstHandUnlessPinch ==
  \A f \in poses :
    (Len(f) > 0 /\ \A i \in 1..Len(f) : f[i].pinchDist >= 50)
      => /\ Label(f) = Label(<<f[1]>>)
         /\ DetectGesture(Refs, f, now) = DetectGesture(Refs, <<f[1]>>, now)
         /\ out.label \in Labels => out.label = Label(<<f[1]>>)

C23_Witness ==
  /\ out.label = "closed" /\ closedFrames = 6 /\ out.mode \in {"none", "FORMED"}
  /\ \E f \in poses : Len(f) = 2 /\ f[2].thumbDir = "up" /\ f[2].pinchDist >= 50

\* The rule that matches first, in the order pinch, thumbs-up, thumbs-down,
\* victory, open hand, closed fist.
Digits(h) == Cardinality({i \in 1..4 : h.fingerStates[i]})
FirstMatchingRule(f) ==
  LET h == f[1] IN
  IF \E i \in 1..Len(f) : f[i].pinchDist < 50 THEN "pinch"
  ELSE IF h.thumbExtended /\ h.thumbDir = "up" /\ Digits(h) = 0 THEN "thumbsUp"
  ELSE IF h.thumbExtended /\ h.thumbDir = "down" /\ Digits(h) = 0 THEN "thumbsDown"
  ELSE IF /\ h.fingerStates[1] /\ h.fingerStates[2] /\ ~h.fingerStates[3]
          /\ ~h.fingerStates[4] /\ ~h.thumbExtended THEN "victory"
  ELSE IF Digits(h) + (IF h.thumbExtended THEN 1 ELSE 0) >= 4 THEN "open"
  ELSE IF Digits(h) <= 1 /\ ~h.thumbExtended THEN "closed"
  ELSE "unknown"

\* C24: for every combination of features the branch the classifier takes
\* is the first matching rule of the order pinch; thumbs-up / thumbs-down;
\* victory; open hand (4 of 5 digits); closed fist (at most one finger
\* besides the thumb, thumb not extended); otherwise unrecognized.
C24_FirstMatchWins ==
  \A f \in poses : Len(f) > 0 =>
    /\ Label(f) = FirstMatchingRule(f)
    /\ out.label \in Labels => out.label = FirstMatchingRule(f)

C24_Witness ==
  /\ out.label = "closed" /\ closedFrames = 6
  /\ \E f \in poses : Len(f) = 1 /\ Digits(f[1]) = 1 /\ f[1].fingerStates[4]
                        /\ f[1].thumbDir = "up"

\* The chain of the rules 2 to 5 in the opposite order.
ReversedRules(h) ==
  IF ExtendedFingers(h) <= 1 /\ ~h.thumbExtended THEN "closed"
  ELSE IF ExtendedFingers(h) >= 4 THEN "open"
  ELSE IF IsVictory(h) THEN "victory"
  ELSE IF IsThumbsDown(h) THEN "thumbsDown"
  ELSE IF IsThumbsUp(h) THEN "thumbsUp"
  ELSE "unknown"

\* C27: at most one of the predicates thumbs-up, thumbs-down, victory, open
\* hand and closed fist holds of a hand, so the rules after the pinch rule
\* give the same label in the opposite order.
C27_RulesDisjoint ==
  \A f \in poses : Len(f) > 0 =>
    LET h == f[1]
        holds == <<IsThumbsUp(h), IsThumbsDown(h), IsVictory(h),
                   ExtendedFingers(h) >= 4,
                   ExtendedFingers(h) <= 1 /\ ~h.thumbExtended>>
    IN /\ Cardinality({i \in 1..5 : holds[i]}) <= 1
       /\ (out.label \in Labels \ {"pinch"}) => out.label = ReversedRules(h)

C27_Witness ==
  /\ out.label = "thumbsDown" /\ thumbsDownFrames = 6 /\ out.camera = "backward"
  /\ \E f \in poses : Len(f) = 2 /\ ExtendedFingers(f[2]) = 5

\* C25 as stated: the six counters, the two cooldown timestamps and the last
\* mode change only in a predictWebcam call.
C25_OnlyFramesWrite ==
  [][(refVars' # refVars \/ lastModeRef' # lastModeRef) => IsFrame]_vars

\* C25 amended: the six counters and the two cooldown timestamps change only
\* in a predictWebcam call; the last mode is also written between two frames,
\* by the effect that copies a changed currentMode prop into it.
C25_OnlyFramesAndSyncWrite ==
  [][/\ refVars' # refVars => IsFrame
     /\ (lastModeRef' # lastModeRef /\ ~IsFrame)
          => (currentMode' # currentMode /\ lastModeRef' = currentMode')]_vars

C25_Witness ==
  /\ out.label = "open" /\ out.mode = "CHAOS" /\ openFrames = 6
  /\ lastDispatched = "CHAOS" /\ lastModeRef = "FORMED" /\ currentMode = "FORMED"

\* C28: at most one animation-frame callback of predictWebcam is pending at
\* any time, also when the loadeddata event fires more than once.
C28_OnePollingLoop == rafs <= 1

\* C29: a render frame turns the camera exactly when a hand is detected and
\* the camera command is none, never turns and dollies in the same frame,
\* and a dolly step ends at or above minDistance when it moves forward and
\* at or below maxDistance when it moves backward.
C29_CameraLayer ==
  /\ [](rendered.controls
          => /\ rendered.rotated <=> (rendered.detected /\ rendered.move = "null")
             /\ ~(rendered.rotated /\ rendered.dollied))
  /\ [](distance >= 10000 /\ distance <= 30000)
  /\ [][distance' # distance
          => /\ rendered'.dollied
             /\ cameraMove = "forward" => (distance' < distance /\ distance' >= 10000)
             /\ cameraMove = "backward" => (distance' > distance /\ distance' <= 30000)
             /\ cameraMove \in {"forward", "backward"}]_vars

C29_Witness ==
  /\ rendered.controls /\ rendered.dollied /\ rendered.move = "forward"
  /\ rendered.detected /\ ~rendered.rotated
  /\ distance = 10000 /\ thumbsUpFrames = 6

====
